---- MODULE Spec2Model ----
(***************************************************************************)
(* gawr: the resumable Download -> Fan-out -> Clip pipeline, its cache     *)
(* (sqlite) and the output-name reservation protocol.                      *)
(*                                                                         *)
(* One thread per actor: the Download actor (download_actor.rs), the       *)
(* Fan-out actor (timestamp_actor.rs) and NumWorkers clip workers          *)
(* (clipper_actor.rs).  Every action below is one step of one thread       *)
(* between two points where another thread can observe or change shared    *)
(* state (cache, output directory, channels, Arc strong counts).           *)
(***************************************************************************)
EXTENDS Integers, Sequences, FiniteSets, TLC

\* ------------------------------------------------------------------ bounds
NumWorkers == 2
MaxPlaylist == 2
MaxRuns == 2
MaxClips == 2
MaxAttempts == 2
MaxFaults == 1

\* ------------------------------------------------------------------ inputs
\* The videos the downloader knows, and the clip titles its timestamps yield.
VideoIds == {"V1", "V2"}

\* metadata.title
MetadataTitle(vid) == "A"

\* The titles extract_timestamps finds in the description (an empty sequence
\* also when the extraction is disabled by skip_timestamps)
ExtractTimestamps(vid) == IF vid = "V1" THEN <<"A", "B">> ELSE <<>>

\* mutation: an empty sequence is passed on as it is
WithFallbackNone(ts, title) == ts

\* if timestamps.is_empty() { timestamps = [("00:00", metadata.title)] }
WithFallback(ts, title) == IF ts = <<>> THEN <<title>> ELSE ts

\* The titles of the timestamps a DownloadedStream carries
Timestamps(vid) == WithFallback(ExtractTimestamps(vid), MetadataTitle(vid))

\* The timestamps extract_timestamps finds in the description of a video:
\* each t_start as its ':'-separated numbers.  V1 has "00:00" and "05:00";
\* V2 has none and is clipped as one file named after the video.
Starts(vid) == IF vid = "V1" THEN <<(<<0, 0>>), (<<5, 0>>)>> ELSE <<>>

\* The t_start of the timestamps a DownloadedStream carries: "00:00" for the
\* single fallback entry
StartsSent(vid) == WithFallback(Starts(vid), <<0, 0>>)

\* The durations (seconds) the downloader can report for a video: a stream
\* cut at the last timestamp (05:00), the two sides of the completeness
\* check, and the whole stream
Durations == {300, 310, 311, 600}

Playlists == UNION {[1 .. n -> VideoIds] : n \in 1 .. MaxPlaylist}

NoOne == -1

\* the reservation mutex after a panic of its holder
Poisoned == -2

VARIABLES
    playlist,   \* the VideoIds the Source feeds, in order
    cores,      \* the number of clip workers of this configuration
    srcPos,     \* position of the next id in the (closed) source channel
    dl,         \* Download actor: pc and the locals of its loop body
    fan,        \* Fan-out actor: pc and the locals of its loop body
    clipQ,      \* the bounded Fan-out -> Clip channel
    wk,         \* clip workers: pc and the locals of the loop body
    lock,       \* holder of the reservation mutex, or NoOne
    videos,     \* cache table `videos`: row id = index
    work,       \* cache table `work`: set of <<video_id, clip_idx>>
    outDir,     \* output directory: set of [name, data]
    arc,        \* strong count of the StreamInfo of each playlist position
    tmp,        \* does the temp audio file of each playlist position exist
    run,        \* number of the current run of the program
    resumed,    \* history: the streams the Fan-out dequeued as RemainingClips
    skipped,    \* history: <<position, why>> of the ids the Download actor skipped
    streamQ,    \* the Download -> Fan-out channel: the messages offered to it
    call,       \* history: the last call made on the cache by a direct caller
    hist        \* history: outcome of the startup sweep, clips sent, clips received

vars == <<playlist, cores, srcPos, dl, fan, clipQ, wk, lock, videos, work, outDir,
          arc, tmp, run, resumed, skipped, streamQ, call, hist>>

Workers == 0 .. (cores - 1)

\* ------------------------------------------------------------------ cache
NULL == -1
NotProcessed == [tag |-> "NotProcessed", clips |-> <<>>]
Completed == [tag |-> "Completed", clips |-> <<>>]
RemainingClips(v) == [tag |-> "RemainingClips", clips |-> v]

\* ToSql / FromSql of the status column
StatusToSql(state) == IF state.tag = "Completed" THEN 1 ELSE 0
StatusFromSql(n) == IF n = 1 THEN Completed ELSE NotProcessed

RECURSIVE SortedSeq(_)
SortedSeq(S) ==
    IF S = {} THEN <<>>
    ELSE LET m == CHOOSE x \in S : \A y \in S : x <= y
         IN <<m>> \o SortedSeq(S \ {m})

SeqSet(s) == {s[i] : i \in 1 .. Len(s)}

\* mutation: the rows of every video are selected
WorkOfAnyVideo(wrk, id) == {r[2] : r \in wrk}

WorkOf(wrk, id) == {r[2] : r \in {x \in wrk : x[1] = id}}

\* mutation: the row is never found
HasRowNever(vs, str) == FALSE

HasRow(vs, str) == \E i \in 1 .. Len(vs) : vs[i].str_id = str
RowId(vs, str) == CHOOSE i \in 1 .. Len(vs) : vs[i].str_id = str

\* check_video: the row's id and state; inserts the row when absent
CheckVideoRows(vs, str) ==
    IF HasRow(vs, str) THEN vs
    ELSE Append(vs, [str_id |-> str, status |-> StatusToSql(NotProcessed),
                     work_len |-> NULL])

CheckVideoId(vs, str) == IF HasRow(vs, str) THEN RowId(vs, str) ELSE Len(vs) + 1

CheckVideoState(vs, wrk, str) ==
    IF ~HasRow(vs, str) THEN NotProcessed
    ELSE LET id == RowId(vs, str)
             status == StatusFromSql(vs[id].status)
         IN IF status = Completed \/ vs[id].work_len = NULL THEN status
            ELSE RemainingClips(SortedSeq(WorkOf(wrk, id)))

\* mutation: the previous work is not deleted
AssignWorkKeep(wrk, id) == wrk

\* assign_work, first statement: DELETE FROM work WHERE video_id = ?
AssignWorkDelete(wrk, id) == {x \in wrk : x[1] # id}

\* mutation: no row is inserted
AssignWorkInsertNone(wrk, id, n) == wrk

\* assign_work, second statement: INSERT INTO work .. VALUES (id, 0), .., (id, n-1)
AssignWorkInsert(wrk, id, n) == wrk \cup {<<id, i>> : i \in 0 .. (n - 1)}

\* With no clip the INSERT text is cut to ".. VALUE": the statement fails and
\* assign_work returns the error after its DELETE
AssignWorkOk(n) == n > 0

\* assign_work: the rows of `work` when it returns
AssignWorkRows(wrk, id, n) == AssignWorkInsert(AssignWorkDelete(wrk, id), id, n)

\* assign_work, third statement: UPDATE videos SET work_len = ? WHERE id = ?
AssignWorkVideos(vs, id, n) ==
    IF AssignWorkOk(n) THEN [vs EXCEPT ![id].work_len = n] ELSE vs

\* mutation: a missing row is inserted
CompleteWorkToggle(wrk, id, idx) ==
    IF <<id, idx>> \in wrk THEN wrk \ {<<id, idx>>} ELSE wrk \cup {<<id, idx>>}

\* complete_work
CompleteWork(wrk, id, idx) == wrk \ {<<id, idx>>}

\* mutation: the status is left as it is
SetCompletedVideosSkipped(vs, id) == vs

\* mutation: the remaining work rows are kept
SetCompletedWorkKept(wrk, id) == wrk

\* set_video_as_completed
SetCompletedVideos(vs, id) == [vs EXCEPT ![id].status = StatusToSql(Completed)]
SetCompletedWork(wrk, id) == {x \in wrk : x[1] # id}

\* The last call on the cache: its arguments, what it returned, and the
\* tables as they were before it
NoCall == [op |-> "none", str |-> "", id |-> 0, n |-> 0, ok |-> TRUE,
           state |-> NotProcessed, videos |-> <<>>, work |-> {}]

\* ------------------------------------------------------------------ files
\* A file name is <<title, n, ext>>: n = 0 is "<title><ext>", n >= 2 is
\* "<title> (<n>)<ext>"; ext is "out" (the configured extension) or "empty".
Exists(dir, name) == \E f \in dir : f.name = name

RECURSIVE SearchFrom(_, _, _, _)
SearchFrom(dir, title, exts, n) ==
    IF \A e \in exts : ~Exists(dir, <<title, n, e>>) THEN n
    ELSE SearchFrom(dir, title, exts, n + 1)

\* mutation: the numbered names start at 1
BuildOutputPathFromOne(dir, title, exts) ==
    IF \A e \in exts : ~Exists(dir, <<title, 0, e>>) THEN 0
    ELSE SearchFrom(dir, title, exts, 1)

\* build_output_path: "<title><ext>" first, then "<title> (<n>)<ext>", n = 2..
BuildOutputPath(dir, title, exts) ==
    IF \A e \in exts : ~Exists(dir, <<title, 0, e>>) THEN 0
    ELSE SearchFrom(dir, title, exts, 2)

\* find_unused_prefix(out_dir, title, ext, true): a candidate is unused when
\* neither it nor its ".empty" sibling exists
FindUnusedPrefix(dir, title) == BuildOutputPath(dir, title, {"out", "empty"})

\* touch: create when missing, leave an existing file as it is
Touch(dir, name) ==
    IF Exists(dir, name) THEN dir ELSE dir \cup {[name |-> name, data |-> <<>>]}

\* rename / copy onto a path: replaces what is there
WriteFile(dir, name, data) ==
    {f \in dir : f.name # name} \cup {[name |-> name, data |-> data]}

RemoveFile(dir, name) == {f \in dir : f.name # name}

\* mutation: the fallback copy writes nothing
CopyNothing(dir, from, name) == dir

\* std::fs::copy(from, to): the content of the source file is written to the
\* path; the source file stays
Copy(dir, from, name) == WriteFile(dir, name, from)

\* A directory entry that is not a regular file carries this as its data
Directory == <<"dir">>

IsFile(f) == f.data # Directory

\* ext.eq_ignore_ascii_case("empty")
AsciiLower(ext) == IF ext = "EMPTY" THEN "empty" ELSE ext

EqIgnoreAsciiCase(a, b) == AsciiLower(a) = AsciiLower(b)

\* mutation: the extension is compared as it is written
SweepableExact(dir) == {f \in dir : IsFile(f) /\ f.name[3] = "empty"}

\* the entries delete_empty_files calls remove_file on
Sweepable(dir) == {f \in dir : IsFile(f) /\ EqIgnoreAsciiCase(f.name[3], "empty")}

\* delete_empty_files when every remove_file succeeds
DeleteEmptyFiles(dir) == dir \ Sweepable(dir)

\* ------------------------------------------------------------------ Arc / temp files
\* Dropping one strong reference; the NamedTempFile inside the StreamInfo is
\* deleted when the last one goes.
ArcAfterDrop(a, k) == [a EXCEPT ![k] = @ - 1]

\* mutation: the temp file is deleted by whoever drops a reference first
TmpAfterAnyDrop(a, t, k) == [t EXCEPT ![k] = FALSE]

TmpAfterDrop(a, t, k) == [t EXCEPT ![k] = IF a[k] = 1 THEN FALSE ELSE @]

\* ------------------------------------------------------------------ completeness check
\* Timestamp::to_seconds: sec = 60 * sec + n over the ':'-separated numbers
RECURSIVE ToSecondsFrom(_, _)
ToSecondsFrom(sec, fields) ==
    IF fields = <<>> THEN sec
    ELSE ToSecondsFrom(60 * sec + Head(fields), Tail(fields))

ToSeconds(tstamp) == ToSecondsFrom(0, tstamp)

MIN_CLIP_LENGTH == 10

\* mutation: a last clip of exactly MIN_CLIP_LENGTH seconds is accepted
IsFileCompleteInclusive(stream_duration, timestamps) ==
    IF timestamps = <<>> THEN TRUE
    ELSE ToSeconds(timestamps[Len(timestamps)]) + MIN_CLIP_LENGTH <= stream_duration

\* is_file_complete
IsFileComplete(stream_duration, timestamps) ==
    IF timestamps = <<>> THEN TRUE
    ELSE ToSeconds(timestamps[Len(timestamps)]) + MIN_CLIP_LENGTH < stream_duration

\* ------------------------------------------------------------------ initial state
\* dur: metadata.duration; now: what the downloader would report for the
\* attempt just made; attempts: download attempts made for this video;
\* ww: a writer has asked for the connection lock while check_video holds its
\* first read guard
DlIdle == [pc |-> "recv", k |-> 0, vid |-> "", db |-> 0, state |-> NotProcessed,
           dur |-> 0, now |-> 0, attempts |-> 0, ww |-> FALSE]
FanIdle == [pc |-> "recv", k |-> 0, vid |-> "", db |-> 0, state |-> NotProcessed,
            todo |-> <<>>, sent |-> {}]
\* did: the steps of the loop body done in this iteration; via: how the clip
\* was published; out: out_tmp holds a file
WkIdle(pc) == [pc |-> pc, k |-> 0, vid |-> "", db |-> 0, idx |-> 0, n |-> 0,
               did |-> {}, via |-> "", out |-> FALSE]

\* faults: the failures of the environment (downloader, transformer, file
\* system) that have happened in the first run; the runs after a restart are
\* explored without such failures
\* audio: the playlist positions download_audio has been called for
NoHist == [swept |-> "no", sent |-> <<>>, recv |-> <<>>, faults |-> 0, audio |-> {}]

\* the environment can make one more call fail
CanFail == hist.faults < MaxFaults

Fault(h) == [h EXCEPT !.faults = @ + 1]

ProcsInit ==
    /\ srcPos = 1
    /\ dl = DlIdle
    /\ fan = FanIdle
    /\ streamQ = <<>>
    /\ clipQ = <<>>
    /\ wk = [w \in Workers |-> WkIdle(IF w = 0 THEN "sweep" ELSE "recv")]
    /\ lock = NoOne
    /\ arc = [k \in 1 .. MaxPlaylist |-> 0]
    /\ tmp = [k \in 1 .. MaxPlaylist |-> FALSE]
    /\ resumed = {}
    /\ skipped = {}
    /\ hist = NoHist

Init ==
    /\ playlist \in Playlists
    /\ cores \in 1 .. NumWorkers
    /\ ProcsInit
    /\ videos = <<>>
    /\ work = {}
    /\ outDir = {}
    /\ run = 1
    /\ call = NoCall

\* An output directory left by earlier runs: a placeholder, a placeholder
\* whose extension is in upper case, a directory named like a placeholder
\* and a finished clip
StaleDir ==
    {[name |-> <<"Stale", 0, "empty">>, data |-> <<>>],
     [name |-> <<"Stale", 2, "EMPTY">>, data |-> <<>>],
     [name |-> <<"Dir", 0, "empty">>, data |-> Directory],
     [name |-> <<"Keep", 0, "out">>, data |-> <<"old">>]}

InitStale ==
    /\ playlist \in Playlists
    /\ cores \in 1 .. NumWorkers
    /\ ProcsInit
    /\ videos = <<>>
    /\ work = {}
    /\ outDir = StaleDir
    /\ run = 1
    /\ call = NoCall

Terminated(pc) == pc \in {"done", "err"}

AllWorkersGone == \A w \in Workers : Terminated(wk[w].pc)

Drained ==
    /\ dl.pc = "done"
    /\ fan.pc = "done"
    /\ \A w \in Workers : wk[w].pc = "done"

\* The Fan-out actor is inside assign_work and holds the write lock of the
\* connection: every other cache operation waits.  The Download actor inside
\* check_video, between its two self.conn.read(), holds a read guard: every
\* writer waits.
DbFree ==
    /\ fan.pc \notin {"insert", "update"}
    /\ dl.pc \notin {"check2", "blocked"}

\* ------------------------------------------------------------------ Download actor
\* mutation: the Completed check is dropped
SkipVideoNever(state) == FALSE

\* `if video_state == ProcessedState::Completed { continue; }`
SkipVideo(state) == state = Completed

\* mutation: UnavailableStream is treated like any other error
OnUnavailableFatal(vs, wrk, id) == <<vs, wrk, "err">>

\* How the actor leaves an UnavailableStream error: the video is marked
\* completed and the loop continues.  The result is <<videos, work, pc>>.
OnUnavailable(vs, wrk, id) ==
    <<SetCompletedVideos(vs, id), SetCompletedWork(wrk, id), "recv">>

\* mutation: the audio is downloaded before the metadata is asked for
FirstCallDownload == "download"

\* The first call to the downloader for a video: get_metadata
FirstCall == "meta"

\* check_video reads the work rows ("Harder case") when the video has a row
\* that is not Completed and has a work_len
NeedsWorkRows(vs, str) ==
    /\ HasRow(vs, str)
    /\ StatusFromSql(vs[RowId(vs, str)].status) # Completed
    /\ vs[RowId(vs, str)].work_len # NULL

\* for video_id in receive_channel: check_video, then the temp file.  In the
\* harder case check_video is left after its first query, its read guard held.
DlReceive ==
    /\ dl.pc = "recv"
    /\ srcPos <= Len(playlist)
    /\ DbFree
    /\ LET vid == playlist[srcPos]
           id == CheckVideoId(videos, vid)
           st == CheckVideoState(videos, work, vid)
       IN /\ videos' = CheckVideoRows(videos, vid)
          /\ srcPos' = srcPos + 1
          /\ skipped' = IF st = Completed
                        THEN skipped \cup {<<srcPos, "completed">>} ELSE skipped
          /\ IF NeedsWorkRows(videos, vid)
             THEN /\ dl' = [DlIdle EXCEPT !.pc = "check2", !.k = srcPos, !.vid = vid,
                                         !.db = id]
                  /\ tmp' = tmp
             ELSE IF SkipVideo(st)
             THEN /\ dl' = DlIdle
                  /\ tmp' = tmp
             ELSE /\ dl' = [DlIdle EXCEPT !.pc = FirstCall, !.k = srcPos, !.vid = vid,
                                         !.db = id, !.state = st]
                  /\ tmp' = [tmp EXCEPT ![srcPos] = TRUE]
    /\ UNCHANGED <<playlist, cores, fan, clipQ, wk, lock, work, outDir, arc, run,
                   resumed,
                   streamQ, call, hist>>

\* check_video, harder case: `let conn = self.conn.read().unwrap()` a second
\* time while the first guard is alive, then the work rows are read and both
\* guards are dropped.  Whether a read() is granted while a writer waits
\* depends on the lock's policy, which std::sync::RwLock leaves to the
\* platform: it is granted, or the thread blocks behind the writer, which
\* itself waits for the first guard.
DlCheckWork ==
    /\ dl.pc = "check2"
    /\ \/ /\ dl' = [DlIdle EXCEPT !.pc = FirstCall, !.k = dl.k, !.vid = dl.vid,
                                   !.db = dl.db,
                                   !.state = RemainingClips(
                                                SortedSeq(WorkOf(work, dl.db)))]
          /\ tmp' = [tmp EXCEPT ![dl.k] = TRUE]
       \/ /\ dl.ww
          /\ dl' = [dl EXCEPT !.pc = "blocked"]
          /\ tmp' = tmp
    /\ UNCHANGED <<playlist, cores, srcPos, fan, clipQ, wk, lock, videos, work, outDir,
                   arc, run, resumed, skipped, streamQ, call, hist>>

\* the source channel is closed and empty: the actor returns Ok
DlStop ==
    /\ dl.pc = "recv"
    /\ srcPos > Len(playlist)
    /\ dl' = [DlIdle EXCEPT !.pc = "done"]
    /\ UNCHANGED <<playlist, cores, srcPos, fan, clipQ, wk, lock, videos, work, outDir,
                   arc, tmp, run, resumed, skipped,
                   streamQ, call, hist>>

\* mutation: a downloader call that succeeds marks the video completed
DlOutcomeMarks(res, next, h) ==
    /\ dl.pc \in {"meta", "download"}
    /\ res = "ok"
    /\ dl' = next
    /\ hist' = h
    /\ videos' = SetCompletedVideos(videos, dl.db)
    /\ UNCHANGED <<playlist, cores, srcPos, fan, clipQ, wk, lock, work, outDir, arc,
                   tmp, run, resumed, skipped, streamQ, call>>

\* The outcome of one downloader call inside download_and_extract_metadata,
\* as the match in run() sees it.  The temp file is dropped on every path
\* that does not send it on.
DlOutcome(res, next, h) ==
    /\ dl.pc \in {"meta", "download"}
    /\ CASE res = "ok" ->
              /\ dl' = next
              /\ hist' = h
              /\ UNCHANGED <<videos, work, tmp, skipped>>
         [] res = "unavailable" ->
              LET r == OnUnavailable(videos, work, dl.db)
              IN /\ DbFree
                 /\ videos' = r[1]
                 /\ work' = r[2]
                 /\ dl' = IF r[3] = "recv" THEN DlIdle ELSE [dl EXCEPT !.pc = r[3]]
                 /\ tmp' = [tmp EXCEPT ![dl.k] = FALSE]
                 /\ skipped' = skipped \cup {<<dl.k, "unavailable">>}
                 /\ hist' = h
         [] res = "fatal" ->
              /\ CanFail
              /\ hist' = Fault(h)
              /\ dl' = [dl EXCEPT !.pc = "err", !.now = 0]
              /\ tmp' = [tmp EXCEPT ![dl.k] = FALSE]
              /\ UNCHANGED <<videos, work, skipped>>
    /\ UNCHANGED <<playlist, cores, srcPos, fan, clipQ, wk, lock, outDir, arc, run,
                   resumed, streamQ, call>>

\* stream_dl.get_metadata(video_id): the duration and the description are
\* read here, once
DlMetadata ==
    /\ dl.pc = "meta"
    /\ \E res \in {"ok", "unavailable", "fatal"}, d \in Durations :
          DlOutcome(res, [dl EXCEPT !.pc = "download", !.dur = d], hist)

\* One turn of the loop: stream_dl.download_audio(out, video_id), the
\* timestamps extracted from metadata.description, is_file_complete on
\* metadata.duration; `continue` when it is false
DlDownload ==
    /\ dl.pc = "download"
    /\ \E res \in {"ok", "unavailable", "fatal"}, now \in Durations :
          DlOutcome(res,
             IF IsFileComplete(dl.dur, Starts(dl.vid))
             THEN [dl EXCEPT !.pc = "send", !.now = 0,
                             !.attempts = IF @ < MaxAttempts THEN @ + 1 ELSE @]
             ELSE [dl EXCEPT !.now = now,
                             !.attempts = IF @ < MaxAttempts THEN @ + 1 ELSE @],
             [hist EXCEPT !.audio = @ \cup {dl.k}])

\* Capacity of the Download -> Fan-out channel: a rendezvous
StreamChannelCap == 0

\* mutation: the channel buffers one message
SendCompletesBuffered(q) == Len(q) <= 1

\* A blocked send returns once its message is taken or fits in the buffer
SendCompletes(q) == Len(q) <= StreamChannelCap

\* send_channel.send(DownloadedStream { .. }): the message is offered
DlSend ==
    /\ dl.pc = "send"
    /\ ~Terminated(fan.pc)
    /\ streamQ' = Append(streamQ, [k |-> dl.k, vid |-> dl.vid, db |-> dl.db,
                                   state |-> dl.state])
    /\ dl' = [dl EXCEPT !.pc = "sending"]
    /\ UNCHANGED <<playlist, cores, srcPos, fan, clipQ, wk, lock, videos, work, outDir,
                   arc, tmp, run, resumed, skipped, call, hist>>

\* the send returns Ok: next iteration of the loop
DlSendDone ==
    /\ dl.pc = "sending"
    /\ SendCompletes(streamQ)
    /\ dl' = DlIdle
    /\ UNCHANGED <<playlist, cores, srcPos, fan, clipQ, wk, lock, videos, work, outDir,
                   arc, tmp, run, resumed, skipped, streamQ, call, hist>>

\* send_channel.send(..) when the Fan-out actor is gone and the message has
\* not been taken: the messages left are dropped with their temp files, the
\* actor returns the error
DlSendFails ==
    /\ dl.pc = "send" \/ (dl.pc = "sending" /\ streamQ # <<>>)
    /\ Terminated(fan.pc)
    /\ dl' = [dl EXCEPT !.pc = "err"]
    /\ streamQ' = <<>>
    /\ tmp' = [k \in DOMAIN tmp |->
                IF (k = dl.k /\ dl.pc = "send")
                   \/ \E i \in 1 .. Len(streamQ) : streamQ[i].k = k
                THEN FALSE ELSE tmp[k]]
    /\ UNCHANGED <<playlist, cores, srcPos, fan, clipQ, wk, lock, videos, work, outDir,
                   arc, run, resumed, skipped, call, hist>>

\* ------------------------------------------------------------------ Fan-out actor
\* mutation: the channel has room for one more clip than there are workers
ClipChannelCapPlusOne == cores + 1

\* Capacity of the Fan-out -> Clip channel: the number of clip workers
ClipChannelCap == cores

RECURSIVE Range(_, _)
Range(a, b) == IF a >= b THEN <<>> ELSE <<a>> \o Range(a + 1, b)

\* work_indexes: the clip indexes to send for a DownloadedStream
WorkIndexes(state, len) ==
    IF state.tag = "RemainingClips" THEN state.clips ELSE Range(0, len)

\* for DownloadedStream { .. } in receive_channel
FanReceive ==
    /\ fan.pc = "recv"
    /\ streamQ # <<>>
    /\ LET m == Head(streamQ)
       IN fan' = [FanIdle EXCEPT !.pc = "derive", !.k = m.k, !.vid = m.vid,
                                 !.db = m.db, !.state = m.state]
    /\ streamQ' = Tail(streamQ)
    /\ UNCHANGED <<playlist, cores, srcPos, dl, clipQ, wk, lock, videos, work, outDir,
                   arc, tmp, run, resumed, skipped, call, hist>>

\* the Download actor is gone: end of the receive loop
FanStop ==
    /\ fan.pc = "recv"
    /\ streamQ = <<>>
    /\ Terminated(dl.pc)
    /\ fan' = [FanIdle EXCEPT !.pc = "done"]
    /\ UNCHANGED <<playlist, cores, srcPos, dl, clipQ, wk, lock, videos, work, outDir,
                   arc, tmp, run, resumed, skipped,
                   streamQ, call, hist>>

\* match video_state { .. }: for NotProcessed the first statement of
\* assign_work; for the other states the empty case and Arc::new(StreamInfo { .. })
FanDerive ==
    /\ fan.pc = "derive"
    /\ LET len == Len(Timestamps(fan.vid))
           idxs == WorkIndexes(fan.state, len)
       IN /\ (fan.state = NotProcessed \/ (fan.state # Completed /\ idxs = <<>>))
                => DbFree
          /\ resumed' = IF fan.state.tag = "RemainingClips"
                        THEN resumed \cup {[k |-> fan.k, db |-> fan.db,
                                             clips |-> SeqSet(fan.state.clips)]}
                        ELSE resumed
          /\ IF fan.state = Completed
             THEN \* unimplemented!()
                  /\ fan' = [FanIdle EXCEPT !.pc = "err"]
                  /\ tmp' = [tmp EXCEPT ![fan.k] = FALSE]
                  /\ UNCHANGED <<videos, work, arc>>
             ELSE IF fan.state = NotProcessed
             THEN /\ work' = AssignWorkDelete(work, fan.db)
                  /\ fan' = [fan EXCEPT !.pc = "insert"]
                  /\ UNCHANGED <<videos, arc, tmp>>
             ELSE IF idxs = <<>>
             THEN /\ videos' = SetCompletedVideos(videos, fan.db)
                  /\ work' = SetCompletedWork(work, fan.db)
                  /\ fan' = FanIdle
                  /\ tmp' = [tmp EXCEPT ![fan.k] = FALSE]
                  /\ arc' = arc
             ELSE /\ fan' = [fan EXCEPT !.pc = "send", !.todo = idxs]
                  /\ arc' = [arc EXCEPT ![fan.k] = 1]
                  /\ UNCHANGED <<videos, work, tmp>>
    /\ UNCHANGED <<playlist, cores, srcPos, dl, clipQ, wk, lock, outDir, run, skipped,
                   streamQ, call, hist>>

\* assign_work, second statement
FanAssignInsert ==
    /\ fan.pc = "insert"
    /\ work' = AssignWorkInsert(work, fan.db, Len(Timestamps(fan.vid)))
    /\ fan' = [fan EXCEPT !.pc = "update"]
    /\ UNCHANGED <<playlist, cores, srcPos, dl, clipQ, wk, lock, videos, outDir, arc,
                   tmp, run, resumed, skipped, streamQ, call, hist>>

\* assign_work, third statement; then (0..timestamps.len()) and
\* Arc::new(StreamInfo { .. })
FanAssignUpdate ==
    /\ fan.pc = "update"
    /\ LET len == Len(Timestamps(fan.vid))
       IN /\ videos' = AssignWorkVideos(videos, fan.db, len)
          /\ fan' = [fan EXCEPT !.pc = "send", !.todo = WorkIndexes(fan.state, len)]
    /\ arc' = [arc EXCEPT ![fan.k] = 1]
    /\ UNCHANGED <<playlist, cores, srcPos, dl, clipQ, wk, lock, work, outDir, tmp,
                   run, resumed, skipped, streamQ, call, hist>>

\* send_channel.send(TimestampedClip { stream_info: stream_info.clone(), .. })
FanSend ==
    /\ fan.pc = "send"
    /\ fan.todo # <<>>
    /\ ~AllWorkersGone
    /\ Len(clipQ) < ClipChannelCap
    /\ clipQ' = Append(clipQ, [k |-> fan.k, vid |-> fan.vid, db |-> fan.db,
                               idx |-> Head(fan.todo)])
    /\ arc' = [arc EXCEPT ![fan.k] = @ + 1]
    /\ fan' = [fan EXCEPT !.todo = Tail(@), !.sent = @ \cup {Head(fan.todo)}]
    /\ hist' = [hist EXCEPT !.sent = Append(@, <<fan.k, Head(fan.todo)>>)]
    /\ UNCHANGED <<playlist, cores, srcPos, dl, wk, lock, videos, work, outDir, tmp,
                   run, resumed, skipped, streamQ, call>>

\* every receiver is gone: the send fails and the actor returns the error
FanSendFails ==
    /\ fan.pc = "send"
    /\ fan.todo # <<>>
    /\ AllWorkersGone
    /\ fan' = [FanIdle EXCEPT !.pc = "err"]
    /\ arc' = ArcAfterDrop(arc, fan.k)
    /\ tmp' = TmpAfterDrop(arc, tmp, fan.k)
    /\ UNCHANGED <<playlist, cores, srcPos, dl, clipQ, wk, lock, videos, work, outDir,
                   run, resumed, skipped,
                   streamQ, call, hist>>

\* end of the loop body: the actor's own stream_info goes out of scope
FanDrop ==
    /\ fan.pc = "send"
    /\ fan.todo = <<>>
    /\ fan' = FanIdle
    /\ arc' = ArcAfterDrop(arc, fan.k)
    /\ tmp' = TmpAfterDrop(arc, tmp, fan.k)
    /\ UNCHANGED <<playlist, cores, srcPos, dl, clipQ, wk, lock, videos, work, outDir,
                   run, resumed, skipped,
                   streamQ, call, hist>>

\* ------------------------------------------------------------------ Clip workers
ClipTitle(c) == Timestamps(c.vid)[c.idx + 1]
Placeholder(c) == <<ClipTitle(c), c.n, "empty">>
\* out_empty.with_extension(ext)
FinalPath(c) == <<ClipTitle(c), c.n, "out">>

\* the reservation mutex can be taken
LockFree(holder) == holder = NoOne

\* Arc::strong_count(&stream_info) == 1
IsLastHolder(count) == count = 1

\* mutation: the placeholder is removed before complete_work
StepAfterUnlinkFirst(pc) ==
    CASE pc = "publish" -> "unlink"
      [] pc = "unlink" -> "complete"
      [] pc = "complete" -> "check"

\* The statement that follows in the loop body: publish (rename / copy),
\* complete_work, remove_file(out_empty), the strong_count test
StepAfter(pc) ==
    CASE pc = "publish" -> "complete"
      [] pc = "complete" -> "unlink"
      [] pc = "unlink" -> "check"

\* mutation: the newest clip of the channel is received first
ReceiveAtLast(q) == Len(q)

\* The channel is a queue: the oldest message is received first
ReceiveAt(q) == 1

RemoveAt(q, i) == SubSeq(q, 1, i - 1) \o SubSeq(q, i + 1, Len(q))

\* The worker returns an error (or panics): its locals are dropped
WkFail(w) ==
    /\ wk' = [wk EXCEPT ![w] = WkIdle("err")]
    /\ arc' = ArcAfterDrop(arc, wk[w].k)
    /\ tmp' = TmpAfterDrop(arc, tmp, wk[w].k)

\* if self.id == 0 { self.delete_empty_files().wrap_err(..)? }
\* read_dir or an entry can fail (the error is returned, with the entries
\* before it already handled); a remove_file that fails is logged and the
\* file stays.  `kept` are the ".empty" files not removed.
WkSweep(w) ==
    /\ wk[w].pc = "sweep"
    /\ \E res \in {"ok", "read_dir", "entry"}, kept \in SUBSET Sweepable(outDir) :
          /\ res = "read_dir" => kept = Sweepable(outDir)
          /\ (res # "ok" \/ kept # {}) => CanFail
          /\ outDir' = DeleteEmptyFiles(outDir) \cup kept
          /\ IF res = "ok"
             THEN /\ wk' = [wk EXCEPT ![w].pc = "recv"]
                  /\ hist' = IF kept = {} THEN [hist EXCEPT !.swept = "clean"]
                             ELSE [Fault(hist) EXCEPT !.swept = "remove_failed"]
             ELSE /\ wk' = [wk EXCEPT ![w] = WkIdle("err")]
                  /\ hist' = [Fault(hist) EXCEPT !.swept = res]
    /\ UNCHANGED <<playlist, cores, srcPos, dl, fan, clipQ, lock, videos, work, arc, tmp,
                   run, resumed, skipped, streamQ, call>>

\* for TimestampedClip { .. } in receive_channel
WkReceive(w) ==
    /\ wk[w].pc = "recv"
    /\ clipQ # <<>>
    /\ LET c == clipQ[ReceiveAt(clipQ)]
       IN /\ wk' = [wk EXCEPT ![w] = [WkIdle("reserve") EXCEPT
                                        !.k = c.k, !.vid = c.vid, !.db = c.db,
                                        !.idx = c.idx]]
          /\ hist' = [hist EXCEPT !.recv = Append(@, <<c.k, c.idx>>)]
    /\ clipQ' = RemoveAt(clipQ, ReceiveAt(clipQ))
    /\ UNCHANGED <<playlist, cores, srcPos, dl, fan, lock, videos, work, outDir, arc,
                   tmp, run, resumed, skipped, streamQ, call>>

\* the channel is empty and the Fan-out actor is gone: the worker returns Ok
WkStop(w) ==
    /\ wk[w].pc = "recv"
    /\ clipQ = <<>>
    /\ Terminated(fan.pc)
    /\ wk' = [wk EXCEPT ![w] = WkIdle("done")]
    /\ UNCHANGED <<playlist, cores, srcPos, dl, fan, clipQ, lock, videos, work, outDir,
                   arc, tmp, run, resumed, skipped, streamQ, call, hist>>

\* reserve_output_path, first half: LOCK.lock().unwrap(), then
\* find_unused_prefix(..).unwrap().  A panic while the guard is held poisons
\* the mutex, and lock().unwrap() on a poisoned mutex panics.
WkReserveFind(w) ==
    /\ wk[w].pc = "reserve"
    /\ IF lock = Poisoned
       THEN /\ WkFail(w)
            /\ UNCHANGED <<lock, hist>>
       ELSE /\ LockFree(lock)
            /\ \E ok \in BOOLEAN :
                  IF ok
                  THEN /\ lock' = w
                       /\ wk' = [wk EXCEPT ![w].pc = "touch",
                                           ![w].n = FindUnusedPrefix(outDir,
                                                                     ClipTitle(wk[w]))]
                       /\ UNCHANGED <<arc, tmp, hist>>
                  ELSE /\ CanFail
                       /\ hist' = Fault(hist)
                       /\ lock' = Poisoned
                       /\ WkFail(w)
    /\ UNCHANGED <<playlist, cores, srcPos, dl, fan, clipQ, videos, work, outDir,
                   run, resumed, skipped, streamQ, call>>

\* reserve_output_path, second half: touch(&output).unwrap(), then the guard
\* is dropped
WkReserveTouch(w) ==
    /\ wk[w].pc = "touch"
    /\ \E ok \in BOOLEAN :
          IF ok
          THEN /\ outDir' = Touch(outDir, Placeholder(wk[w]))
               /\ lock' = IF lock = w THEN NoOne ELSE lock
               /\ wk' = [wk EXCEPT ![w].pc = "clip", ![w].did = @ \cup {"reserve"}]
               /\ UNCHANGED <<arc, tmp, hist>>
          ELSE /\ CanFail
               /\ hist' = Fault(hist)
               /\ outDir' = outDir
               /\ lock' = Poisoned
               /\ WkFail(w)
    /\ UNCHANGED <<playlist, cores, srcPos, dl, fan, clipQ, videos, work, run,
                   resumed, skipped, streamQ, call>>

\* named_tempfile(ext) and create_clip (extract_clip, normalize_audio): the
\* clip is in the worker's temp file out_tmp
WkCreateClip(w) ==
    /\ wk[w].pc = "clip"
    /\ \E ok \in BOOLEAN :
          IF ok THEN /\ wk' = [wk EXCEPT ![w].pc = "publish", ![w].out = TRUE,
                                         ![w].did = @ \cup {"clip"}]
                     /\ UNCHANGED <<arc, tmp, hist>>
          ELSE /\ CanFail
               /\ hist' = Fault(hist)
               /\ WkFail(w)
    /\ UNCHANGED <<playlist, cores, srcPos, dl, fan, clipQ, lock, videos, work, outDir,
                   run, resumed, skipped, streamQ, call>>

\* rename(out_tmp, output): the temp file becomes the final file; when it
\* fails, copy(out_tmp, output).unwrap(): the temp file stays until it is
\* dropped
WkPublish(w) ==
    /\ wk[w].pc = "publish"
    /\ \E res \in {"renamed", "copied", "failed"} :
          /\ res # "renamed" => CanFail
          /\ hist' = IF res = "renamed" THEN hist ELSE Fault(hist)
          /\ IF res = "failed"
             THEN /\ WkFail(w)
                  /\ outDir' = outDir
             ELSE /\ outDir' = IF res = "renamed"
                                THEN WriteFile(outDir, FinalPath(wk[w]),
                                               <<wk[w].vid, wk[w].idx>>)
                                ELSE Copy(outDir, <<wk[w].vid, wk[w].idx>>,
                                          FinalPath(wk[w]))
                  /\ wk' = [wk EXCEPT ![w].pc = StepAfter("publish"),
                                      ![w].out = (res = "copied"),
                                      ![w].via = res,
                                      ![w].did = @ \cup {"publish"}]
                  /\ UNCHANGED <<arc, tmp>>
    /\ UNCHANGED <<playlist, cores, srcPos, dl, fan, clipQ, lock, videos, work, run,
                   resumed, skipped, streamQ, call>>

\* self.cache.complete_work(stream_info.db_id, clip_idx)
WkCompleteWork(w) ==
    /\ wk[w].pc = "complete"
    /\ DbFree
    /\ work' = CompleteWork(work, wk[w].db, wk[w].idx)
    /\ wk' = [wk EXCEPT ![w].pc = StepAfter("complete"),
                        ![w].did = @ \cup {"complete_work"}]
    /\ UNCHANGED <<playlist, cores, srcPos, dl, fan, clipQ, lock, videos, outDir, arc,
                   tmp, run, resumed, skipped, streamQ, call, hist>>

\* self.conn.write() of complete_work or set_video_as_completed while
\* check_video holds its first read guard: the worker waits for the lock
WkWriteWaits(w) ==
    /\ \/ wk[w].pc = "complete"
       \/ wk[w].pc = "check" /\ IsLastHolder(arc[wk[w].k])
    /\ dl.pc = "check2"
    /\ ~dl.ww
    /\ dl' = [dl EXCEPT !.ww = TRUE]
    /\ UNCHANGED <<playlist, cores, srcPos, fan, clipQ, wk, lock, videos, work, outDir,
                   arc, tmp, run, resumed, skipped, streamQ, call, hist>>

\* std::fs::remove_file(out_empty).unwrap()
WkUnlink(w) ==
    /\ wk[w].pc = "unlink"
    /\ IF Exists(outDir, Placeholder(wk[w]))
       THEN /\ outDir' = RemoveFile(outDir, Placeholder(wk[w]))
            /\ wk' = [wk EXCEPT ![w].pc = StepAfter("unlink"),
                                ![w].did = @ \cup {"unlink"}]
            /\ UNCHANGED <<arc, tmp>>
       ELSE /\ WkFail(w)
            /\ outDir' = outDir
    /\ UNCHANGED <<playlist, cores, srcPos, dl, fan, clipQ, lock, videos, work, run,
                   resumed, skipped, streamQ, call, hist>>

\* if Arc::strong_count(&stream_info) == 1 { set_video_as_completed }
WkCheckLast(w) ==
    /\ wk[w].pc = "check"
    /\ IF IsLastHolder(arc[wk[w].k])
       THEN /\ DbFree
            /\ videos' = SetCompletedVideos(videos, wk[w].db)
            /\ work' = SetCompletedWork(work, wk[w].db)
            /\ wk' = [wk EXCEPT ![w].pc = "drop",
                                ![w].did = @ \cup {"set_video_as_completed"}]
       ELSE /\ UNCHANGED <<videos, work>>
            /\ wk' = [wk EXCEPT ![w].pc = "drop"]
    /\ UNCHANGED <<playlist, cores, srcPos, dl, fan, clipQ, lock, outDir, arc, tmp, run,
                   resumed, skipped, streamQ, call, hist>>

\* end of the loop body: stream_info and out_tmp go out of scope
WkDrop(w) ==
    /\ wk[w].pc = "drop"
    /\ wk' = [wk EXCEPT ![w] = WkIdle("recv")]
    /\ arc' = ArcAfterDrop(arc, wk[w].k)
    /\ tmp' = TmpAfterDrop(arc, tmp, wk[w].k)
    /\ UNCHANGED <<playlist, cores, srcPos, dl, fan, clipQ, lock, videos, work, outDir,
                   run, resumed, skipped, streamQ, call, hist>>

\* ------------------------------------------------------------------ a new run
\* The process ends (a crash at any point, or its normal exit) and the program
\* is started again on the same playlist, cache file and output directory.
Restart ==
    /\ run < MaxRuns
    /\ run' = run + 1
    /\ srcPos' = 1
    /\ dl' = DlIdle
    /\ fan' = FanIdle
    /\ clipQ' = <<>>
    /\ wk' = [w \in Workers |-> WkIdle(IF w = 0 THEN "sweep" ELSE "recv")]
    /\ lock' = NoOne
    /\ arc' = [k \in 1 .. MaxPlaylist |-> 0]
    /\ tmp' = [k \in 1 .. MaxPlaylist |-> FALSE]
    /\ resumed' = {}
    /\ skipped' = {}
    /\ hist' = [NoHist EXCEPT !.faults = MaxFaults]
    /\ streamQ' = <<>>
    /\ UNCHANGED <<playlist, cores, videos, work, outDir, call>>

\* ------------------------------------------------------------------ specifications
Next ==
    \/ DlReceive
    \/ DlCheckWork
    \/ DlStop
    \/ DlMetadata
    \/ DlDownload
    \/ DlSend
    \/ DlSendDone
    \/ DlSendFails
    \/ FanReceive
    \/ FanStop
    \/ FanDerive
    \/ FanAssignInsert
    \/ FanAssignUpdate
    \/ FanSend
    \/ FanSendFails
    \/ FanDrop
    \/ \E w \in Workers : WkSweep(w)
    \/ \E w \in Workers : WkReceive(w)
    \/ \E w \in Workers : WkStop(w)
    \/ \E w \in Workers : WkReserveFind(w)
    \/ \E w \in Workers : WkReserveTouch(w)
    \/ \E w \in Workers : WkCreateClip(w)
    \/ \E w \in Workers : WkPublish(w)
    \/ \E w \in Workers : WkCompleteWork(w)
    \/ \E w \in Workers : WkWriteWaits(w)
    \/ \E w \in Workers : WkUnlink(w)
    \/ \E w \in Workers : WkCheckLast(w)
    \/ \E w \in Workers : WkDrop(w)

\* One run of the program on a fresh cache and an empty output directory
Spec == Init /\ [][Next]_vars

\* the same program started on an output directory that is not empty
SpecStale == InitStale /\ [][Next]_vars

\* The steps of each thread
DlStep ==
    DlReceive \/ DlCheckWork \/ DlStop \/ DlMetadata \/ DlDownload \/ DlSend \/ DlSendDone
       \/ DlSendFails

FanStep ==
    FanReceive \/ FanStop \/ FanDerive \/ FanAssignInsert \/ FanAssignUpdate
       \/ FanSend \/ FanSendFails \/ FanDrop

WkStep(w) ==
    /\ w \in Workers
    /\ \/ WkSweep(w) \/ WkReceive(w) \/ WkStop(w) \/ WkReserveFind(w)
       \/ WkReserveTouch(w) \/ WkCreateClip(w) \/ WkPublish(w)
       \/ WkCompleteWork(w) \/ WkWriteWaits(w) \/ WkUnlink(w) \/ WkCheckLast(w) \/ WkDrop(w)

\* One run in which every thread that can take a step eventually takes one
\* (each actor is a thread of its own, scheduled by the operating system)
FairSpec ==
    /\ Spec
    /\ WF_vars(DlStep)
    /\ WF_vars(FanStep)
    /\ \A w \in 0 .. NumWorkers - 1 : WF_vars(WkStep(w))

NextRestart == Next \/ Restart

\* The program run, stopped at any point, and run again
SpecRestart == Init /\ [][NextRestart]_vars

\* ------------------------------------------------------------------ the cache alone
\* The CacheDb operations called in any order by one caller, on a cache that
\* starts empty; `call` keeps the last call and the tables before it.
CacheInit ==
    /\ playlist = <<"V1">>
    /\ cores = 1
    /\ ProcsInit
    /\ videos = <<>>
    /\ work = {}
    /\ outDir = {}
    /\ run = 1
    /\ call = NoCall

\* no actor runs
CacheFrame ==
    UNCHANGED <<playlist, cores, srcPos, dl, fan, clipQ, wk, lock, outDir, arc, tmp,
                run, resumed, skipped, streamQ, hist>>

CallOf(op, str, id, n, ok, state) ==
    [op |-> op, str |-> str, id |-> id, n |-> n, ok |-> ok, state |-> state,
     videos |-> videos, work |-> work]

\* check_video(str)
CacheCheckVideo ==
    /\ CacheFrame
    /\ \E str \in VideoIds :
          /\ videos' = CheckVideoRows(videos, str)
          /\ work' = work
          /\ call' = CallOf("check_video", str, CheckVideoId(videos, str), 0, TRUE,
                            CheckVideoState(videos, work, str))

\* assign_work(id, n)
CacheAssignWork ==
    /\ CacheFrame
    /\ \E id \in 1 .. Len(videos), n \in 0 .. MaxClips :
          /\ work' = IF AssignWorkOk(n) THEN AssignWorkRows(work, id, n)
                     ELSE AssignWorkDelete(work, id)
          /\ videos' = AssignWorkVideos(videos, id, n)
          /\ call' = CallOf("assign_work", "", id, n, AssignWorkOk(n), NotProcessed)

\* complete_work(id, idx)
CacheCompleteWork ==
    /\ CacheFrame
    /\ \E id \in 1 .. Cardinality(VideoIds), idx \in 0 .. (MaxClips - 1) :
          /\ work' = CompleteWork(work, id, idx)
          /\ videos' = videos
          /\ call' = CallOf("complete_work", "", id, idx, TRUE, NotProcessed)

\* set_video_as_completed(id)
CacheSetVideoAsCompleted ==
    /\ CacheFrame
    /\ \E id \in 1 .. Len(videos) :
          /\ videos' = SetCompletedVideos(videos, id)
          /\ work' = SetCompletedWork(work, id)
          /\ call' = CallOf("set_video_as_completed", "", id, 0, TRUE, NotProcessed)

NextCache ==
    \/ CacheCheckVideo
    \/ CacheAssignWork
    \/ CacheCompleteWork
    \/ CacheSetVideoAsCompleted

SpecCache == CacheInit /\ [][NextCache]_vars

\* ------------------------------------------------------------------ properties
Positions == 1 .. Len(playlist)

IsCompleted(vid) == HasRow(videos, vid) /\ CheckVideoState(videos, work, vid) = Completed

\* the clip messages of playlist position k held by workers or buffered
HeldByWorkers(k) == {w \in Workers : wk[w].k = k /\ ~Terminated(wk[w].pc)}
Buffered(k) == {i \in 1 .. Len(clipQ) : clipQ[i].k = k}

\* worker w has reserved its placeholder and not yet removed it
InFlight(w) == wk[w].pc \in {"clip", "publish", "complete", "unlink"}

EmptyFiles == {f.name : f \in {g \in outDir : g.name[3] = "empty"}}
FinalFiles == {f \in outDir : f.name[3] = "out"}

\* C1: after a successful drain every video id the Source sent is Completed
\* in the cache.
C1_DrainedAllCompleted ==
    Drained => \A k \in Positions : IsCompleted(playlist[k])

\* C2: for a stream dequeued as RemainingClips(S) the Fan-out sends each index
\* of S once and no other index, workers only get indexes of S, and after a
\* successful drain the video is Completed.
C2_ResumeRemainingOnly ==
    /\ (fan.pc = "send" /\ fan.state.tag = "RemainingClips") =>
          /\ fan.sent \cup SeqSet(fan.todo) = SeqSet(fan.state.clips)
          /\ fan.sent \cap SeqSet(fan.todo) = {}
          /\ Len(fan.todo) = Cardinality(SeqSet(fan.todo))
    /\ \A r \in resumed :
          /\ \A w \in HeldByWorkers(r.k) : wk[w].idx \in r.clips
          /\ \A i \in Buffered(r.k) : clipQ[i].idx \in r.clips
          /\ Drained => videos[r.db].status = StatusToSql(Completed)

\* C3: a video whose check_video state is Completed is skipped by the Download
\* actor: no metadata fetch, no temp file, no download, no DownloadedStream;
\* the Fan-out actor never holds a stream whose state is Completed.
C3_CompletedNeverDownloaded ==
    /\ dl.pc \in {"meta", "download", "send", "sending"} => dl.state # Completed
    /\ fan.pc \in {"derive", "send"} => fan.state # Completed
    /\ \A s \in skipped :
          s[2] = "completed" =>
             /\ dl.k # s[1]
             /\ fan.k # s[1]
             /\ ~tmp[s[1]]
             /\ arc[s[1]] = 0
             /\ HeldByWorkers(s[1]) = {}
             /\ Buffered(s[1]) = {}

\* a Completed video has been dequeued and skipped, and the actor went on
C3_Witness ==
    \E s \in skipped : s[2] = "completed" /\ srcPos > s[1] /\ dl.pc \in {"recv", "done"}

\* every clip of playlist position k has a final file and no work row left
FullyProcessed(k) ==
    \A i \in 1 .. Len(Timestamps(playlist[k])) :
       /\ \E f \in FinalFiles : f.data = <<playlist[k], i - 1>>
       /\ HasRow(videos, playlist[k])
       /\ <<RowId(videos, playlist[k]), i - 1>> \notin work

\* C4: an unavailable video is marked Completed, yields no DownloadedStream,
\* does not make the Download actor fail, and the ids after it are processed.
C4_UnavailableSkipped ==
    /\ \A s \in skipped :
          s[2] = "unavailable" =>
             /\ IsCompleted(playlist[s[1]])
             /\ fan.k # s[1]
             /\ arc[s[1]] = 0
             /\ HeldByWorkers(s[1]) = {}
             /\ Buffered(s[1]) = {}
             /\ ~(dl.pc = "err" /\ dl.k = s[1])
             /\ dl.pc = "done" => srcPos > Len(playlist)
    /\ Drained =>
          \A k \in Positions :
             (\A s \in skipped : s[1] # k) => FullyProcessed(k)

\* V at position 1 was unavailable, the video after it is fully processed and
\* the run ended without error
C4_Witness ==
    /\ Drained
    /\ <<1, "unavailable">> \in skipped
    /\ Len(playlist) > 1
    /\ playlist[2] # playlist[1]
    /\ FullyProcessed(2)

\* C5: two reservations in flight at the same time never have the same
\* placeholder path.
C5_ReservationsDistinct ==
    \A w1, w2 \in Workers :
       (w1 # w2 /\ InFlight(w1) /\ InFlight(w2)) =>
          Placeholder(wk[w1]) # Placeholder(wk[w2])

\* the i-th name of a title: "<title><ext>", then "<title> (<i>)<ext>"
Cand(i) == IF i = 1 THEN 0 ELSE i

Titles == UNION {SeqSet(Timestamps(v)) : v \in VideoIds}

\* the suffixes of a title taken by a final file or by a placeholder
Occupied(dir, title) ==
    {f.name[2] : f \in {g \in dir : g.name[1] = title}}

FinalSuffixes(title) == {f.name[2] : f \in {g \in FinalFiles : g.name[1] = title}}

C6_Numbering ==
    \A w \in Workers :
       (wk[w].pc = "reserve" /\ wk'[w].pc = "touch") =>
          LET occ == Occupied(outDir, ClipTitle(wk[w]))
              m == Cardinality(occ)
          IN (occ = {Cand(j) : j \in 1 .. m}) => wk'[w].n = Cand(m + 1)

C6_Final ==
    Drained =>
       /\ EmptyFiles = {}
       /\ \A t \in Titles :
             FinalSuffixes(t) = {Cand(j) : j \in 1 .. Cardinality(FinalSuffixes(t))}
       /\ (cores = 2 /\ Len(playlist) = 2 /\ playlist[1] # playlist[2]
           /\ skipped = {}) => FinalSuffixes("A") = {0, 2}

\* C6: the i-th reservation of a title whose earlier names stay occupied
\* selects "<title><ext>" for i = 1 and "<title> (<i>)<ext>" after; after a
\* drain with two workers and two videos with a clip of the same title the
\* final files are "<title><ext>" and "<title> (2)<ext>", and no ".empty" is left.
C6_NamesInOrder == [] C6_Final /\ [][C6_Numbering]_vars

\* two workers, two videos, both clips titled A published, nothing left over
C6_Witness ==
    /\ Drained
    /\ cores = 2
    /\ EmptyFiles = {}
    /\ \E f, g \in FinalFiles :
          /\ f.name = <<"A", 0, "out">>
          /\ g.name = <<"A", 2, "out">>
          /\ f.data[1] # g.data[1]

\* C7: the ".empty" files on disk are exactly the placeholders of the clips
\* the workers are producing.
C7_PlaceholdersAreInFlight ==
    EmptyFiles = {Placeholder(wk[w]) : w \in {x \in Workers : InFlight(x)}}

C8_Alive ==
    \A k \in 1 .. MaxPlaylist :
       (HeldByWorkers(k) # {} \/ Buffered(k) # {}) => tmp[k]

C8_RemovedByLastDrop ==
    \A k \in 1 .. MaxPlaylist :
       (tmp[k] /\ ~tmp'[k] /\ arc[k] > 0) => arc'[k] = 0

\* C8: while a worker holds a clip of a video, or one is buffered in the clip
\* channel, the temp audio file of that video exists; the file of a StreamInfo
\* is removed only by the drop of its last reference.
C8_TempFileOutlivesClips == [] C8_Alive /\ [][C8_RemovedByLastDrop]_vars

\* a worker holds the last reference of a video the Fan-out is done with,
\* and the temp file is still there
C8_Witness ==
    \E w \in Workers :
       /\ wk[w].pc = "publish"
       /\ arc[wk[w].k] = 1
       /\ fan.k # wk[w].k
       /\ tmp[wk[w].k]

Processed(k) == \A s \in skipped : s[1] # k

\* C9: after a successful drain every clip of every processed video has
\* exactly one final file, and a publish never targets an existing final file.
C9_OneFilePerClip ==
    /\ Drained =>
          \A k \in Positions :
             Processed(k) =>
                \A i \in 1 .. Len(Timestamps(playlist[k])) :
                   Cardinality({f \in FinalFiles :
                                   f.data = <<playlist[k], i - 1>>}) = 1
    /\ \A w \in Workers :
          wk[w].pc = "publish" => ~Exists(outDir, FinalPath(wk[w]))

Distinct(seq) == Cardinality(SeqSet(seq)) = Len(seq)

\* C10: a second run on the same playlist and cache adds no final file: when
\* it has drained, no clip has more than the one final file a single run
\* gives it, also when the first run was stopped part-way.
C10_RestartAddsNoFile ==
    (run = 2 /\ Drained /\ Distinct(playlist)) =>
       \A f, g \in FinalFiles : f.data = g.data => f = g

\* the Fan-out actor has made the last send of the clips of position k
DoneSending(k) == ~(fan.k = k /\ fan.pc \in {"derive", "insert", "update"})
                  /\ ~(fan.k = k /\ fan.pc = "send" /\ fan.todo # <<>>)

\* C11: when the Fan-out actor has sent the last clip of a video, a worker
\* that has finished the only clip of that video still in flight reads a
\* share count of exactly 1.
C11_ShareCountSound ==
    \A w \in Workers :
       LET k == wk[w].k
       IN (/\ wk[w].pc = "check"
           /\ HeldByWorkers(k) = {w}
           /\ Buffered(k) = {}
           /\ DoneSending(k)) => arc[k] = 1

\* C12: outside a running assign_work (so for check_video, and after a crash
\* at any point) a video has no work row while its work_len is NULL, and
\* otherwise only rows below its work_len: never the rows of a new
\* assignment with the work_len of before.
C12_AssignWorkAtomic ==
    DbFree =>
       \A id \in 1 .. Len(videos) :
          IF videos[id].work_len = NULL THEN WorkOf(work, id) = {}
          ELSE WorkOf(work, id) \subseteq 0 .. (videos[id].work_len - 1)

\* C13: a video whose status is Completed has no work row, whatever calls the
\* pipeline makes on the cache.
C13_CompletedHasNoWork ==
    \A id \in 1 .. Len(videos) :
       videos[id].status = StatusToSql(Completed) => WorkOf(work, id) = {}

RowsOf(vs, str) == {i \in 1 .. Len(vs) : vs[i].str_id = str}

\* C14: after check_video(str) the string has exactly one row; a first call
\* appends a row with status NotProcessed and returns its id, a later call
\* returns the id of the existing row and inserts nothing.
C14_OneRowPerVideo ==
    /\ \A str \in VideoIds : Cardinality(RowsOf(videos, str)) <= 1
    /\ call.op = "check_video" =>
          /\ RowsOf(videos, call.str) = {call.id}
          /\ IF RowsOf(call.videos, call.str) = {}
             THEN /\ Len(videos) = Len(call.videos) + 1
                  /\ call.id = Len(videos)
                  /\ videos[call.id].status = 0
                  /\ videos[call.id].work_len = NULL
                  /\ \A i \in 1 .. Len(call.videos) : videos[i] = call.videos[i]
             ELSE /\ videos = call.videos
                  /\ RowsOf(call.videos, call.str) = {call.id}

\* check_video has been called on a string that already had its row
C14_Witness ==
    /\ call.op = "check_video"
    /\ RowsOf(call.videos, call.str) # {}
    /\ Len(videos) = 2
    /\ call.id = 2

\* C15: check_video returns NotProcessed for an absent id and for a row with
\* status NotProcessed and work_len NULL, Completed for a row with status
\* Completed, and otherwise RemainingClips of exactly the clip_idx of the
\* video's rows in `work`.
C15_CheckVideoState ==
    call.op = "check_video" =>
       LET rows == RowsOf(call.videos, call.str)
       IN IF rows = {} THEN call.state = NotProcessed
          ELSE LET r == call.videos[call.id]
               IN /\ call.id \in rows
                  /\ CASE r.status = 1 -> call.state = Completed
                       [] r.status = 0 /\ r.work_len = NULL -> call.state = NotProcessed
                       [] OTHER ->
                            /\ call.state.tag = "RemainingClips"
                            /\ SeqSet(call.state.clips) =
                                  {x[2] : x \in {y \in call.work : y[1] = call.id}}
                            /\ Len(call.state.clips) = Cardinality(SeqSet(call.state.clips))

\* check_video returned RemainingClips for a video while another video had
\* work rows too
C15_Witness ==
    /\ call.op = "check_video"
    /\ call.state.tag = "RemainingClips"
    /\ call.state.clips # <<>>
    /\ \E x \in call.work : x[1] # call.id

\* C16: after complete_work(id, idx) returned, the same call again changes
\* nothing; the call is not an error and changes nothing when the row was
\* not there; it touches no other row.
C16_CompleteWorkIdempotent ==
    call.op = "complete_work" =>
       /\ call.ok
       /\ CompleteWork(work, call.id, call.n) = work
       /\ videos = call.videos
       /\ work = call.work \ {<<call.id, call.n>>}
       /\ <<call.id, call.n>> \notin call.work => work = call.work

\* complete_work has been called for a row that was not there, other rows
\* being there
C16_Witness ==
    /\ call.op = "complete_work"
    /\ <<call.id, call.n>> \notin call.work
    /\ call.work # {}

\* C17: after set_video_as_completed(id), complete_work(id, idx) for any idx
\* changes nothing, the status is Completed with no work row, and
\* set_video_as_completed(id) again changes nothing.
C17_CompletedAbsorbs ==
    call.op = "set_video_as_completed" =>
       /\ \A idx \in 0 .. (MaxClips - 1) : CompleteWork(work, call.id, idx) = work
       /\ videos[call.id].status = 1
       /\ {x \in work : x[1] = call.id} = {}
       /\ SetCompletedVideos(videos, call.id) = videos
       /\ SetCompletedWork(work, call.id) = work

\* set_video_as_completed has been called on a video that had work rows
C17_Witness ==
    /\ call.op = "set_video_as_completed"
    /\ \E x \in call.work : x[1] = call.id

\* C18: after assign_work(id, n) returned Ok, the rows of the video are
\* exactly 0 .. n-1 and work_len is n, whatever had been completed before,
\* and the same call again changes neither.
C18_AssignWorkIdempotent ==
    (call.op = "assign_work" /\ call.ok) =>
       /\ {x[2] : x \in {y \in work : y[1] = call.id}} = 0 .. (call.n - 1)
       /\ videos[call.id].work_len = call.n
       /\ {x \in work : x[1] # call.id} = {x \in call.work : x[1] # call.id}
       /\ AssignWorkRows(work, call.id, call.n) = work
       /\ AssignWorkVideos(videos, call.id, call.n) = videos

\* assign_work(id, n) has been called again after some of the n rows had
\* been completed
C18_Witness ==
    /\ call.op = "assign_work"
    /\ call.ok
    /\ call.videos[call.id].work_len = call.n
    /\ {x \in call.work : x[1] = call.id} # {}
    /\ Cardinality({x \in call.work : x[1] = call.id}) < call.n

\* C19: at most one downloaded video waits to be taken by the Fan-out actor,
\* and the Download actor is not past the receive of the next id (temp file,
\* metadata, download) while one waits.
C19_OneVideoAhead ==
    /\ Len(streamQ) <= 1
    /\ streamQ # <<>> => dl.pc = "sending"
    /\ dl.pc \in {"meta", "download", "send"} => streamQ = <<>>

\* a downloaded video waits while the Fan-out actor is sending the clips of
\* the video before it
C19_Witness ==
    /\ streamQ # <<>>
    /\ dl.pc = "sending"
    /\ fan.pc = "send"
    /\ fan.k < dl.k

\* C20: the Fan-out -> Clip channel never holds more clips than there are
\* clip workers.
C20_ClipChannelBounded == Len(clipQ) <= cores

\* several workers, none has received anything, as many clips are buffered
\* as there are workers, and the Fan-out actor has one more to send
C20_Witness ==
    /\ cores > 1
    /\ Len(clipQ) = cores
    /\ \A w \in Workers : wk[w].pc \in {"sweep", "recv"}
    /\ outDir = {}
    /\ fan.pc = "send"
    /\ fan.todo # <<>>

\* C21: the clips reach the clip channel video by video, in the order in
\* which the Source sent the videos, and the workers take them from the clip
\* channel in the order in which the Fan-out actor sent them.
C21_OrderPreserved ==
    /\ \A i, j \in 1 .. Len(hist.sent) : i < j => hist.sent[i][1] <= hist.sent[j][1]
    /\ Len(hist.recv) <= Len(hist.sent)
    /\ hist.recv = SubSeq(hist.sent, 1, Len(hist.recv))

\* the clips of two videos have been sent and received, two of them from the
\* same video, by several workers
C21_Witness ==
    /\ cores > 1
    /\ Len(hist.recv) >= 3
    /\ hist.recv[1][1] = hist.recv[2][1]
    /\ hist.recv[1][1] < hist.recv[3][1]

C24_SecondAttemptAccepted ==
    ~(/\ dl.pc = "download"
      /\ dl.dur = 300
      /\ dl.attempts >= 2
      /\ dl.now = 600
      /\ Starts(dl.vid) # <<>>)

\* What holds instead: no stream is ever handed on after a retry, since every
\* turn of the loop tests the same metadata.duration
C24_RetryNeverAccepted ==
    ~(/\ dl.pc \in {"send", "sending"}
      /\ dl.attempts >= 2)

\* An entry the sweep has to remove: a regular file whose extension is
\* "empty" in any case
C25_IsPlaceholder(f) == f.data # Directory /\ f.name[3] \in {"empty", "EMPTY"}

\* C25: only the clip worker 0 sweeps, once, before it receives any clip; a
\* sweep without an I/O error removes every regular file of the output
\* directory whose extension is "empty" in any case, removes nothing else and
\* creates nothing, so after a drain Stale.empty is gone and there is no
\* Stale.<ext>.
C25_StartupSweep ==
    /\ [](/\ \A w \in Workers \ {0} : wk[w].pc # "sweep"
          /\ (wk[0].pc = "sweep") <=> (hist.swept = "no")
          /\ wk[0].pc = "sweep" => (wk[0].k = 0 /\ wk[0].did = {})
          /\ (Drained /\ hist.swept = "clean") =>
                /\ \A f \in outDir : f.name[1] = "Stale" => f \notin StaleDir
                /\ \A f \in outDir : ~(f.name[1] = "Stale" /\ f.name[3] = "out")
                /\ \A f \in StaleDir : ~C25_IsPlaceholder(f) => f \in outDir)
    /\ [][/\ hist.swept # "no" => hist'.swept = hist.swept
          /\ (hist.swept = "no" /\ hist'.swept = "clean") =>
                /\ wk[0].pc = "sweep"
                /\ outDir' \subseteq outDir
                /\ \A f \in outDir \ outDir' : C25_IsPlaceholder(f)
                /\ \A f \in outDir' : ~C25_IsPlaceholder(f)]_vars

\* a run on the stale directory has drained after a sweep that removed the
\* placeholders, and clips have been published next to the old file
C25_Witness ==
    /\ Drained
    /\ hist.swept = "clean"
    /\ cores > 1
    /\ StaleDir \cap outDir = {f \in StaleDir : ~C25_IsPlaceholder(f)}
    /\ \E f \in outDir \ StaleDir : f.name[3] = "out"

\* C26: a worker that ends an iteration as the last holder of the video's
\* StreamInfo has called set_video_as_completed in that iteration.
C26_LastHolderCompletes ==
    \A w \in Workers :
       (wk[w].pc = "drop" /\ arc[wk[w].k] = 1) =>
          "set_video_as_completed" \in wk[w].did

\* C26, first part, which holds: a worker that has published its final file
\* is at complete_work or past it, whatever failed before
C26_PublishedThenCompleted ==
    \A w \in Workers :
       "publish" \in wk[w].did =>
          \/ wk[w].pc = "complete"
          \/ "complete_work" \in wk[w].did

\* C27: in every iteration of a clip worker the steps happen in this order:
\* reserve the placeholder, produce the clip, publish the final file,
\* complete_work, unlink the placeholder, set_video_as_completed.  So the
\* worker deletes a work row only when the final file is there, and removes
\* its placeholder only after its complete_work.
C27_StepOrder ==
    /\ [](\A w \in Workers :
            /\ "clip" \in wk[w].did => "reserve" \in wk[w].did
            /\ "publish" \in wk[w].did => "clip" \in wk[w].did
            /\ "complete_work" \in wk[w].did => "publish" \in wk[w].did
            /\ "unlink" \in wk[w].did => "complete_work" \in wk[w].did
            /\ "set_video_as_completed" \in wk[w].did => "unlink" \in wk[w].did)
    /\ [][\A w \in Workers :
            /\ ("complete_work" \notin wk[w].did /\ "complete_work" \in wk'[w].did) =>
                  Exists(outDir, FinalPath(wk[w]))
            /\ ("unlink" \notin wk[w].did /\ "unlink" \in wk'[w].did) =>
                  /\ Exists(outDir, FinalPath(wk[w]))
                  /\ ~Exists(outDir', Placeholder(wk[w]))]_vars

\* a worker has gone through all six steps of one iteration
C27_Witness ==
    \E w \in Workers :
       /\ wk[w].pc = "drop"
       /\ wk[w].did = {"reserve", "clip", "publish", "complete_work", "unlink",
                       "set_video_as_completed"}

\* C28: when the rename of the temp file to the final path fails, the worker
\* copies it there: the clip is published with its content, the worker goes
\* on to complete_work, and the temp file is gone when the iteration is over.
\* The worker stops at the publish step only when the copy fails too, and
\* then nothing has been written.
C28_CopyFallback ==
    /\ [](\A w \in Workers :
            /\ wk[w].via = "copied" =>
                  /\ wk[w].pc \in {"complete", "unlink", "check", "drop"}
                  /\ "publish" \in wk[w].did
                  /\ Exists(outDir, FinalPath(wk[w]))
            /\ wk[w].out =>
                  wk[w].pc \in {"publish", "complete", "unlink", "check", "drop"})
    /\ [][\A w \in Workers :
            /\ (wk[w].pc = "publish" /\ wk'[w].via = "copied") =>
                  /\ wk'[w].pc = "complete"
                  /\ wk'[w].out
                  /\ [name |-> FinalPath(wk[w]),
                      data |-> <<wk[w].vid, wk[w].idx>>] \in outDir'
            /\ (wk[w].pc = "publish" /\ wk'[w].pc = "err") => outDir' = outDir
            /\ (wk[w].via = "copied" /\ wk[w].pc = "complete"
                  /\ wk'[w] # wk[w]) =>
                  /\ wk'[w].pc = "unlink"
                  /\ "complete_work" \in wk'[w].did]_vars

\* a clip published by the fallback copy has had its complete_work, and the
\* worker is about to remove the placeholder
C28_Witness ==
    \E w \in Workers :
       /\ wk[w].via = "copied"
       /\ wk[w].pc = "unlink"
       /\ "complete_work" \in wk[w].did
       /\ Exists(outDir, FinalPath(wk[w]))
       /\ <<wk[w].db, wk[w].idx>> \notin work

\* C29: an error while worker 0 sweeps does not stop it: whether reading the
\* output directory, reading an entry or removing a file fails, worker 0 goes
\* on to its receive loop.
C29_SweepErrorsNonFatal ==
    hist.swept \in {"read_dir", "entry", "remove_failed"} => wk[0].pc # "err"

\* What holds instead: only a failing remove_file leaves worker 0 running
C29_OnlyRemoveIsLogged ==
    /\ [](hist.swept \in {"read_dir", "entry"} => wk[0].pc = "err")
    /\ [][(hist.swept = "no" /\ hist'.swept = "remove_failed") =>
             wk'[0].pc = "recv"]_vars

StageFailed ==
    \/ dl.pc = "err"
    \/ fan.pc = "err"
    \/ \E w \in Workers : wk[w].pc = "err"

\* C22: with the source closed after the playlist and fair scheduling, a run
\* in which no stage fails ends with the Download actor, the Fan-out actor
\* and every clip worker returned.
C22_GracefulShutdown == <>(Drained \/ StageFailed)

\* C22, the order of the shutdown, which holds: an actor returns Ok only
\* when its input channel is closed and empty
C22_StopsOnlyWhenInputClosed ==
    [][/\ (dl.pc # "done" /\ dl'.pc = "done") => srcPos > Len(playlist)
       /\ (fan.pc # "done" /\ fan'.pc = "done") =>
             (streamQ = <<>> /\ Terminated(dl.pc))
       /\ \A w \in Workers :
             (wk[w].pc # "done" /\ wk'[w].pc = "done") =>
                (clipQ = <<>> /\ Terminated(fan.pc))]_vars

\* What holds instead: every fair run ends drained, or with a failed stage,
\* or with the Download actor in its retry loop for ever, or with the
\* Download actor blocked inside check_video
C22_ShutdownOrRetry ==
    <>(\/ Drained
       \/ StageFailed
       \/ [](dl.pc = "download" /\ dl.attempts >= 1)
       \/ dl.pc = "blocked")

\* C30: a fatal error in one clip worker stops that worker only: after a
\* single failing call, with no clip published yet, the other worker is still
\* able to work.
C30_FatalErrorIsLocal ==
    ~(/\ cores = 2
      /\ hist.faults = 1
      /\ FinalFiles = {}
      /\ \A w \in Workers : wk[w].pc = "err")

\* C31: when the pending clip indexes derived for a DownloadedStream are
\* empty, the Fan-out actor marks the video Completed (and its work rows are
\* gone), sends no clip for it and goes back to receive the next stream.
C31_NoWorkMarksCompleted ==
    /\ [](\A r \in resumed :
            r.clips = {} =>
               /\ fan.k # r.k
               /\ StatusFromSql(videos[r.db].status) = Completed
               /\ \A i \in 1 .. Len(hist.sent) : hist.sent[i][1] # r.k)
    /\ [][(/\ fan.pc = "derive"
           /\ fan.state.tag = "RemainingClips"
           /\ fan.state.clips = <<>>
           /\ fan' # fan) =>
             /\ fan' = FanIdle
             /\ StatusFromSql(videos'[fan.db].status) = Completed
             /\ WorkOf(work', fan.db) = {}
             /\ clipQ' = clipQ
             /\ arc' = arc
             /\ hist' = hist]_vars

\* a stream with nothing left to do has been received and dealt with, and
\* the actor has returned at the end of its input
C31_Witness ==
    \E r \in resumed :
       /\ r.clips = {}
       /\ StatusFromSql(videos[r.db].status) = Completed
       /\ WorkOf(work, r.db) = {}
       /\ fan.pc = "done"

\* C32: for a stream whose state is NotProcessed the Fan-out actor finishes
\* assign_work(db_id, timestamps.len()) before it sends any clip of it: the
\* rows 0 .. len-1 exist and work_len is set when the sending starts; it then
\* sends one clip for each index 0 .. len-1; and a worker executes
\* complete_work for a clip only after that assign_work.
C32_AssignBeforeSend ==
    /\ [](/\ (fan.state = NotProcessed /\ fan.pc \in {"derive", "insert", "update"}) =>
                /\ \A i \in 1 .. Len(hist.sent) : hist.sent[i][1] # fan.k
                /\ \A w \in Workers : wk[w].k # fan.k
          /\ (fan.state = NotProcessed /\ fan.pc = "send") =>
                /\ SeqSet(fan.todo) \cup fan.sent = 0 .. (Len(Timestamps(fan.vid)) - 1)
                /\ SeqSet(fan.todo) \cap fan.sent = {}
                /\ videos[fan.db].work_len = Len(Timestamps(fan.vid)))
    /\ [][/\ (fan.state = NotProcessed /\ fan.pc = "update" /\ fan'.pc = "send") =>
                /\ WorkOf(work', fan.db) = 0 .. (Len(Timestamps(fan.vid)) - 1)
                /\ fan'.sent = {}
          /\ (fan.state = NotProcessed /\ fan.pc = "send" /\ fan'.pc = "recv") =>
                fan.sent = 0 .. (Len(Timestamps(fan.vid)) - 1)
          /\ \A w \in Workers :
                ("complete_work" \notin wk[w].did /\ "complete_work" \in wk'[w].did) =>
                   /\ videos[wk[w].db].work_len # NULL
                   /\ fan.k = wk[w].k => fan.pc = "send"]_vars

\* a worker has completed a clip of a video that was NotProcessed while the
\* Fan-out actor is still sending the clips of that video
C32_Witness ==
    \E w \in Workers :
       /\ "complete_work" \in wk[w].did
       /\ fan.k = wk[w].k
       /\ fan.state = NotProcessed
       /\ fan.pc = "send"
       /\ fan.todo # <<>>
       /\ <<wk[w].db, wk[w].idx>> \notin work

\* C33: the metadata of a video is fetched once, before any download of it:
\* download_audio is called only for a video whose metadata has been read,
\* and when get_metadata reports UnavailableStream the actor goes back to its
\* receive with the video marked Completed, without download_audio having
\* been called for it and with its (empty) temp file dropped.
C33_MetadataBeforeDownload ==
    /\ [](/\ dl.pc = "meta" => (dl.k \notin hist.audio /\ dl.dur = 0)
          /\ dl.pc \in {"download", "send", "sending"} => dl.dur \in Durations)
    /\ [][/\ (dl.pc = "meta" /\ dl'.pc = "recv") =>
                /\ <<dl.k, "unavailable">> \in skipped'
                /\ dl.k \notin hist'.audio
                /\ ~tmp'[dl.k]
                /\ StatusFromSql(videos'[dl.db].status) = Completed
          /\ (dl.pc = "download" /\ dl'.pc = "download") => dl'.dur = dl.dur
          /\ \A k \in hist'.audio \ hist.audio : k = dl.k /\ dl.dur \in Durations]_vars

\* get_metadata has reported the first video unavailable, no download was
\* made for it, and the next video is being downloaded
C33_Witness ==
    /\ <<1, "unavailable">> \in skipped
    /\ 1 \notin hist.audio
    /\ 2 \in hist.audio
    /\ dl.k = 2
    /\ dl.pc = "send"

\* C34: from check_video to the send (or to the UnavailableStream outcome)
\* the Download actor does not change the cache: no step it takes while it
\* fetches the metadata, downloads, downloads again or sends changes a row
\* of `videos` or `work`.
C34_NoCacheMutationWhileDownloading ==
    [][(/\ dl.pc \in {"meta", "download", "send", "sending"}
        /\ dl' # dl
        /\ <<dl.k, "unavailable">> \notin skipped') =>
          /\ videos' = videos
          /\ work' = work]_vars

\* a video with work rows left is being downloaded again after two attempts,
\* and its rows are those check_video saw
C34_Witness ==
    /\ dl.pc = "download"
    /\ dl.attempts >= 2
    /\ dl.state.tag = "RemainingClips"
    /\ dl.state.clips # <<>>
    /\ SeqSet(dl.state.clips) = WorkOf(work, dl.db)

\* C35: every DownloadedStream the Download actor emits carries at least one
\* timestamp; when the extraction yields nothing (or is disabled) it carries
\* exactly one, ("00:00", metadata.title), so exactly one clip is sent for the
\* video and a drained run of that video alone (found available) leaves
\* exactly one output file, named after the title.
C35_NonEmptyTimestamps ==
    /\ dl.pc \in {"send", "sending"} =>
          /\ Len(Timestamps(dl.vid)) >= 1
          /\ Len(StartsSent(dl.vid)) = Len(Timestamps(dl.vid))
          /\ ExtractTimestamps(dl.vid) = <<>> =>
                /\ Timestamps(dl.vid) = <<MetadataTitle(dl.vid)>>
                /\ StartsSent(dl.vid) = <<(<<0, 0>>)>>
    /\ \A m \in SeqSet(clipQ) : m.idx < Len(Timestamps(m.vid))
    /\ (Drained /\ playlist = <<"V2">> /\ skipped = {}) =>
          /\ hist.sent = <<(<<1, 0>>)>>
          /\ {f.name : f \in outDir} = {<<MetadataTitle("V2"), 0, "out">>}

\* a run of the one video without timestamps has drained with its single
\* clip published
C35_Witness ==
    /\ Drained
    /\ playlist = <<"V2">>
    /\ hist.recv = <<(<<1, 0>>)>>
    /\ FinalFiles # {}

\* C36: in every cache state outside a running assign_work, each work row
\* (video_id, clip_idx) has 0 <= clip_idx < work_len of its video, and every
\* index the Fan-out actor takes from RemainingClips is an index into the
\* timestamps of the stream it was received with.
C36_WorkRowsInRange ==
    /\ DbFree =>
          \A r \in work :
             /\ r[1] \in 1 .. Len(videos)
             /\ videos[r[1]].work_len # NULL
             /\ 0 <= r[2]
             /\ r[2] < videos[r[1]].work_len
    /\ fan.state.tag = "RemainingClips" =>
          \A i \in SeqSet(fan.state.clips) :
             0 <= i /\ i < Len(Timestamps(fan.vid))

\* C36 within one run, where it holds: the rows are in range whenever
\* the cache can be read, and a resumed stream is sent with valid indexes
C36_InRangeInOneRun == run = 1 => C36_WorkRowsInRange

\* C37: the startup sweep of worker 0 never removes the placeholder of a
\* reservation made in this run: a worker that has reserved its placeholder
\* and not yet unlinked it finds it in the output directory.
C37_SweepSparesLivePlaceholders ==
    \A w \in Workers :
       wk[w].pc \in {"clip", "publish", "complete", "unlink"} =>
          Exists(outDir, Placeholder(wk[w]))

\* C38: check_video always returns: the Download actor is never blocked for
\* ever at the second self.conn.read() of check_video, whatever the clip
\* workers ask of the cache in between.
C38_CheckVideoReturns == dl.pc # "blocked"

\* C39: a clip worker marks a video Completed only when every clip sent for
\* that stream has been published: each of them has its final file.
C39_CompletedOnlyWhenAllPublished ==
    \A w \in Workers :
       "set_video_as_completed" \in wk[w].did =>
          \A i \in 1 .. Len(hist.sent) :
             hist.sent[i][1] = wk[w].k =>
                \E f \in FinalFiles : f.data = <<wk[w].vid, hist.sent[i][2]>>

\* C40: within one run no (video, clip index) pair is handed to the clip
\* workers twice, also when the Source sends an id more than once.
C40_NoClipSentTwice ==
    \A i, j \in 1 .. Len(hist.sent) :
       i < j =>
          ~(/\ playlist[hist.sent[i][1]] = playlist[hist.sent[j][1]]
            /\ hist.sent[i][2] = hist.sent[j][2])

\* C40 for playlists without a repeated id, where it holds
C40_NoClipSentTwiceDistinct == Distinct(playlist) => C40_NoClipSentTwice

====
